---- MODULE Spec2Model ----
(***************************************************************************)
(* docker-fs: the projection of a container engine's inventory (volumes,   *)
(* images, containers) as a read-only filesystem.  The model follows       *)
(* src/src/docker_context.py (DockerContext) and                           *)
(* src/src/docker_fuse_operations.py (DockerOperations).                   *)
(*                                                                         *)
(* Strings are sequences of one-character strings, so that split, index,   *)
(* startswith, count and slicing are computed as Python computes them.     *)
(* Timestamps (st_ctime and friends) are left out: no operation modelled   *)
(* here branches on them.                                                  *)
(***************************************************************************)
EXTENDS Integers, Sequences, FiniteSets, TLC

VARIABLES
    engine,             \* the engine's live inventory: [images, containers, volumes]
    volume_symlinks,    \* DockerContext.volume_symlinks
    image_symlinks,     \* DockerContext.image_symlinks
    container_symlinks, \* DockerContext.container_symlinks
    sizes_cache,        \* the ttl_cache of DockerContext._get_sizes
    file_desciptors,    \* DockerContextWithRead.file_desciptors
    lastOp              \* the most recent dispatcher call: [op, path, err, val]

vars == <<engine, volume_symlinks, image_symlinks, container_symlinks,
          sizes_cache, file_desciptors, lastOp>>

(***************************************************************************)
(* Strings                                                                 *)
(***************************************************************************)
SLASH == "/"
DOT == "."

\* str.count(c)
Count(s, c) == Cardinality({ i \in DOMAIN s : s[i] = c })

\* position of the first c in s at or after i (1-based), 0 when there is none
RECURSIVE IndexFrom(_, _, _)
IndexFrom(s, c, i) ==
    IF i > Len(s) THEN 0
    ELSE IF s[i] = c THEN i
    ELSE IndexFrom(s, c, i + 1)

\* position of the first c in s (1-based), 0 when there is none
IndexOf(s, c) == IndexFrom(s, c, 1)

\* str.startswith(p)
StartsWith(s, p) ==
    /\ Len(p) <= Len(s)
    /\ SubSeq(s, 1, Len(p)) = p

\* s[n:]
From(s, n) == SubSeq(s, n + 1, Len(s))

\* s.split(sep, maxsplit=m)
RECURSIVE Split(_, _, _)
Split(s, sep, m) ==
    LET i == IndexOf(s, sep) IN
    IF m = 0 \/ i = 0 THEN <<s>>
    ELSE <<SubSeq(s, 1, i - 1)>> \o Split(From(s, i), sep, m - 1)

\* n copies of s, concatenated
RECURSIVE Repeat(_, _)
Repeat(s, n) == IF n = 0 THEN <<>> ELSE s \o Repeat(s, n - 1)

\* the elements of a sequence
Range(f) == { f[i] : i \in DOMAIN f }

\* a dict: a function from keys to values; the empty dict
EmptyDict == [k \in {} |-> 0]
DictPut(d, k, v) == [x \in DOMAIN d \cup {k} |-> IF x = k THEN v ELSE d[x]]

(***************************************************************************)
(* The engine: what client.<category>.list() and .get() and api.df()      *)
(* answer.  A resource is [id, name, tags, attrs]; images carry tags and  *)
(* no name, volumes and containers a name and no tags.                    *)
(***************************************************************************)
\* a sha256 digest in hex is 64 characters long
DigestHexLen == 64
Hex(c) == [i \in 1..DigestHexLen |-> IF i = 1 THEN c ELSE "0"]
SHA256 == <<"s", "h", "a", "2", "5", "6", ":">>

IMG1 == SHA256 \o Hex("1")
IMG2 == SHA256 \o Hex("2")
CTR1 == Hex("c")
VOLX == <<"x", "9">>

TagApp   == <<"a", ":", "1">>                                \* a:1
TagTeam  == <<"t", "/", "a", ":", "2">>                      \* t/a:2
TagTeamB == <<"t", "/", "b", ":", "1">>                      \* t/b:1
TagReg   == <<"r", ":", "5">>                                \* r:5
TagRegB  == <<"r", ":", "5", "/", "b", ":", "1">>            \* r:5/b:1
\* the deepest tag has MaxTagDepth directory levels: g/g/g/a:1
MaxTagDepth == 3
DeepDir(k) == [i \in 1..(2 * k - 1) |-> IF i % 2 = 1 THEN "g" ELSE "/"]
TagDeep  == DeepDir(MaxTagDepth) \o <<"/", "a", ":", "1">>
NameWeb  == <<"w", "e", "b">>                                \* web
NameDat  == <<"d", "a", "t">>                                \* dat

NoName == <<>>
Image(id, tags, size) ==
    [id |-> id, name |-> NoName, tags |-> tags,
     attrs |-> [k \in {"Size"} |-> size]]
\* a container as containers.list() gives it: no size field in attrs
Container(id, name) ==
    [id |-> id, name |-> name, tags |-> <<>>, attrs |-> EmptyDict]
Volume(id, name) ==
    [id |-> id, name |-> name, tags |-> <<>>, attrs |-> EmptyDict]

\* the inventories the engine is taken through: [images, containers, volumes].
\* The engine names a volume by its name (id = name); a volume whose id
\* differs from its name is what readdir_volumes' id != name branch is for.
Engines ==
    { [images |-> <<>>, containers |-> <<>>, volumes |-> <<>>],
      [images |-> << Image(IMG1, <<TagApp, TagTeam>>, 7) >>,
       containers |-> << Container(CTR1, NameWeb) >>,
       volumes |-> << Volume(NameWeb, NameWeb) >>],
      [images |-> << Image(IMG1, <<TagTeam>>, 7),
                     Image(IMG2, <<TagTeamB, TagApp>>, 0) >>,
       containers |-> << Container(CTR1, NameWeb) >>,
       volumes |-> << Volume(NameWeb, NameWeb), Volume(VOLX, NameDat) >>],
      [images |-> << Image(IMG1, <<TagReg>>, 7), Image(IMG2, <<TagRegB>>, 0) >>,
       containers |-> <<>>,
       volumes |-> << Volume(NameWeb, NameWeb) >>],
      [images |-> << Image(IMG2, <<TagDeep>>, 0) >>,
       containers |-> << Container(CTR1, NameWeb) >>,
       volumes |-> << Volume(VOLX, NameDat) >>] }

\* api.df()["Containers"]: one entry per container, with its SizeRootFs
DfSizeRootFs(id) == 5
Df(eng) == [ i \in DOMAIN eng.containers |->
               [Id |-> eng.containers[i].id,
                SizeRootFs |-> DfSizeRootFs(eng.containers[i].id)] ]

\* the digest without its "sha256:" prefix
StripSha(id) == IF StartsWith(id, SHA256) THEN From(id, 7) ELSE id

NotFound == [found |-> FALSE]
Found(m) == [found |-> TRUE, model |-> m]

\* collection.get(key): by identifier (with or without "sha256:"), by name
\* or by tag; docker.errors.NotFound when nothing matches
CollectionGet(coll, key) ==
    LET hits == { i \in DOMAIN coll :
                    \/ StripSha(coll[i].id) = StripSha(key)
                    \/ (coll[i].name # NoName /\ coll[i].name = key)
                    \/ key \in Range(coll[i].tags) } IN
    IF key = <<>> \/ hits = {} THEN NotFound
    ELSE Found(coll[CHOOSE i \in hits : \A j \in hits : i <= j])

(***************************************************************************)
(* readdir: the Namespace Builder.  A listing is [names, syms]: the names *)
(* yielded, in order, and the symbolic-link table it leaves behind.       *)
(***************************************************************************)
\* the root folders with the image_tags reader's name among them
ROOT_FOLDERS_with_image_tags ==
    << <<"v", "o", "l", "u", "m", "e", "s">>,
       <<"i", "m", "a", "g", "e", "s">>,
       <<"c", "o", "n", "t", "a", "i", "n", "e", "r", "s">>,
       <<"i", "m", "a", "g", "e", "_", "t", "a", "g", "s">> >>

ROOT_FOLDERS == << <<"v", "o", "l", "u", "m", "e", "s">>,
                   <<"i", "m", "a", "g", "e", "s">>,
                   <<"c", "o", "n", "t", "a", "i", "n", "e", "r", "s">> >>
VOLUMES == ROOT_FOLDERS[1]
IMAGES == ROOT_FOLDERS[2]
CONTAINERS == ROOT_FOLDERS[3]

\* the loop of readdir_volumes over client.volumes.list()
RECURSIVE readdir_volumes_loop(_, _, _)
readdir_volumes_loop(vols, names, syms) ==
    IF vols = <<>> THEN [names |-> names, syms |-> syms]
    ELSE LET i == Head(vols)
             sha256 == StripSha(i.id) IN
         IF sha256 # i.name
         THEN readdir_volumes_loop(Tail(vols),
                                   names \o <<i.name, <<DOT>> \o sha256>>,
                                   DictPut(syms, i.name, <<DOT>> \o sha256))
         ELSE readdir_volumes_loop(Tail(vols), names \o <<i.name>>, syms)

readdir_volumes(eng) == readdir_volumes_loop(eng.volumes, <<>>, EmptyDict)

\* the loop of readdir_containers over client.containers.list(all=True)
RECURSIVE readdir_containers_loop(_, _, _)
readdir_containers_loop(ctrs, names, syms) ==
    IF ctrs = <<>> THEN [names |-> names, syms |-> syms]
    ELSE LET i == Head(ctrs)
             sha256 == <<DOT>> \o i.id IN
         readdir_containers_loop(Tail(ctrs),
                                 names \o <<i.name, sha256>>,
                                 DictPut(syms, i.name, sha256))

readdir_containers(eng) == readdir_containers_loop(eng.containers, <<>>, EmptyDict)

\* syms.update({ t: sha256 for t in i.tags })
RECURSIVE UpdateTags(_, _, _)
UpdateTags(syms, tags, sha256) ==
    IF tags = <<>> THEN syms
    ELSE UpdateTags(DictPut(syms, Head(tags), sha256), Tail(tags), sha256)

\* readdir_images_tags without the sub_dirs check
RECURSIVE readdir_images_tags_no_dedup(_, _, _)
readdir_images_tags_no_dedup(tags, names, sub_dirs) ==
    IF tags = <<>> THEN [names |-> names, sub_dirs |-> sub_dirs]
    ELSE LET t == Head(tags)
             idx == IndexOf(t, SLASH) IN
         IF idx = 0
         THEN readdir_images_tags_no_dedup(Tail(tags), names \o <<t>>, sub_dirs)
         ELSE readdir_images_tags_no_dedup(Tail(tags),
                                           names \o <<SubSeq(t, 1, idx - 1)>>,
                                           sub_dirs)

\* the inner loop of readdir_images over one image's tags:
\* [names, sub_dirs] after it
RECURSIVE readdir_images_tags(_, _, _)
readdir_images_tags(tags, names, sub_dirs) ==
    IF tags = <<>> THEN [names |-> names, sub_dirs |-> sub_dirs]
    ELSE LET t == Head(tags)
             idx == IndexOf(t, SLASH) IN
         IF idx = 0
         THEN readdir_images_tags(Tail(tags), names \o <<t>>, sub_dirs)
         ELSE LET next_level_dir == SubSeq(t, 1, idx - 1) IN
              IF next_level_dir \in sub_dirs
              THEN readdir_images_tags(Tail(tags), names, sub_dirs)
              ELSE readdir_images_tags(Tail(tags), names \o <<next_level_dir>>,
                                       sub_dirs \cup {next_level_dir})

\* the loop of readdir_images (no tag_prefix) over client.images.list(all=True)
RECURSIVE readdir_images_loop(_, _, _, _, _)
readdir_images_loop(imgs, sym_links_only, names, syms, sub_dirs) ==
    IF imgs = <<>> THEN [names |-> names, syms |-> syms]
    ELSE LET i == Head(imgs)
             sha256 == <<DOT>> \o From(i.id, 7)
             syms2 == UpdateTags(syms, i.tags, sha256) IN
         IF sym_links_only
         THEN readdir_images_loop(Tail(imgs), sym_links_only, names, syms2, sub_dirs)
         ELSE LET r == readdir_images_tags(i.tags, names \o <<sha256>>, sub_dirs) IN
              readdir_images_loop(Tail(imgs), sym_links_only, r.names, syms2,
                                  r.sub_dirs)

readdir_images(eng, sym_links_only) ==
    readdir_images_loop(eng.images, sym_links_only, <<>>, EmptyDict, {})

OK == "OK"

\* the keys of a dict in one fixed order (the code iterates them in
\* insertion order; nothing below depends on the order chosen)
RECURSIVE KeysInOrder(_)
KeysInOrder(keys) ==
    IF keys = {} THEN <<>>
    ELSE LET k == CHOOSE x \in keys : TRUE IN <<k>> \o KeysInOrder(keys \ {k})

\* the loop of readdir_image_tags over self.image_symlinks:
\* sub_dir, _ = tag_remaining.split("/", maxsplit=2) raises ValueError when
\* the split gives three parts
RECURSIVE readdir_image_tags_loop(_, _, _, _)
readdir_image_tags_loop(tags, tag_prefix, names, sub_dirs) ==
    IF tags = <<>> THEN [err |-> OK, names |-> names]
    ELSE LET tag == Head(tags) IN
         IF ~StartsWith(tag, tag_prefix)
         THEN readdir_image_tags_loop(Tail(tags), tag_prefix, names, sub_dirs)
         ELSE LET tag_remaining == From(tag, Len(tag_prefix)) IN
              IF IndexOf(tag_remaining, SLASH) # 0
              THEN LET parts == Split(tag_remaining, SLASH, 2) IN
                   IF Len(parts) # 2 THEN [err |-> "ValueError", names |-> names]
                   ELSE LET sub_dir == parts[1] IN
                        IF sub_dir \in sub_dirs
                        THEN readdir_image_tags_loop(Tail(tags), tag_prefix, names,
                                                     sub_dirs)
                        ELSE readdir_image_tags_loop(Tail(tags), tag_prefix,
                                                     names \o <<sub_dir>>,
                                                     sub_dirs \cup {sub_dir})
              ELSE readdir_image_tags_loop(Tail(tags), tag_prefix,
                                           names \o <<tag_remaining>>, sub_dirs)

\* readdir_image_tags rebuilding the image table on every call
readdir_image_tags_always_rebuild(eng, syms, tag_prefix) ==
    IF tag_prefix = <<>> THEN [err |-> "IndexError", names |-> <<>>, syms |-> syms]
    ELSE LET prefix == IF tag_prefix[Len(tag_prefix)] # SLASH
                       THEN tag_prefix \o <<SLASH>> ELSE tag_prefix
             syms2 == readdir_images(eng, TRUE).syms
             r == readdir_image_tags_loop(KeysInOrder(DOMAIN syms2), prefix, <<>>, {}) IN
         [err |-> r.err, names |-> r.names, syms |-> syms2]

\* readdir_image_tags(tag_prefix): [err, names, syms], syms the image table
\* after the call (rebuilt when it was empty)
readdir_image_tags(eng, syms, tag_prefix) ==
    IF tag_prefix = <<>> THEN [err |-> "IndexError", names |-> <<>>, syms |-> syms]
    ELSE LET prefix == IF tag_prefix[Len(tag_prefix)] # SLASH
                       THEN tag_prefix \o <<SLASH>> ELSE tag_prefix
             syms2 == IF DOMAIN syms = {} THEN readdir_images(eng, TRUE).syms
                      ELSE syms
             r == readdir_image_tags_loop(KeysInOrder(DOMAIN syms2), prefix, <<>>, {}) IN
         [err |-> r.err, names |-> r.names, syms |-> syms2]

IMAGE_TAGS == <<"i", "m", "a", "g", "e", "_", "t", "a", "g", "s">>

\* the two names every listing starts with
dots == << <<DOT>>, <<DOT, DOT>> >>

\* DockerOperations.readdir(path): [err, names, vs, is, cs]: the outcome, the
\* names handed out before it, and the three tables after the call
readdir(eng, vs, is, cs, path) ==
    LET rel == From(path, 1)
        parts == IF IndexOf(rel, SLASH) # 0 THEN Split(rel, SLASH, 1) ELSE <<rel>>
        rel_path == parts[1]
        has_prefix == Len(parts) = 2
        tag_prefix == IF has_prefix THEN parts[2] ELSE <<>>
        images_tags ==
            LET r == readdir_image_tags(eng, is, tag_prefix) IN
            [err |-> r.err,
             names |-> IF r.err = OK THEN dots \o r.names ELSE dots,
             vs |-> vs, is |-> r.syms, cs |-> cs]
        fail(e) == [err |-> e, names |-> <<>>, vs |-> vs, is |-> is, cs |-> cs] IN
    IF path = <<>> \/ path[1] # SLASH THEN fail("AssertionError")
    ELSE IF rel_path = <<>>
    THEN [err |-> OK, names |-> dots \o ROOT_FOLDERS, vs |-> vs, is |-> is, cs |-> cs]
    ELSE IF rel_path = VOLUMES
    THEN LET r == readdir_volumes(eng) IN
         [err |-> OK, names |-> dots \o r.names, vs |-> r.syms, is |-> is, cs |-> cs]
    ELSE IF rel_path = CONTAINERS
    THEN LET r == readdir_containers(eng) IN
         [err |-> OK, names |-> dots \o r.names, vs |-> vs, is |-> is, cs |-> r.syms]
    ELSE IF rel_path = IMAGES
    THEN IF ~has_prefix
         THEN LET r == readdir_images(eng, FALSE) IN
              [err |-> OK, names |-> dots \o r.names, vs |-> vs, is |-> r.syms,
               cs |-> cs]
         ELSE images_tags
    ELSE IF rel_path = IMAGE_TAGS
    THEN IF ~has_prefix
         THEN [err |-> "TypeError", names |-> dots, vs |-> vs, is |-> is, cs |-> cs]
         ELSE images_tags
    ELSE fail("AttributeError")

(***************************************************************************)
(* readlink                                                                *)
(***************************************************************************)
ENOENT == "ENOENT"

\* readlink without the "../" per directory level of the tag
readlink_no_ascent(vs, is, cs, name) ==
    LET parts == Split(name, SLASH, 2)
        fail == [err |-> "ENOENT", val |-> <<>>] IN
    IF Len(parts) # 3 \/ parts[1] # <<>> THEN fail
    ELSE IF parts[2] \notin {VOLUMES, IMAGES, CONTAINERS} THEN fail
    ELSE LET symlinks == IF parts[2] = VOLUMES THEN vs
                         ELSE IF parts[2] = IMAGES THEN is ELSE cs IN
         IF parts[3] \notin DOMAIN symlinks THEN fail
         ELSE [err |-> OK, val |-> symlinks[parts[3]]]

\* DockerContext.readlink(name): any exception inside becomes ENOENT
readlink(vs, is, cs, name) ==
    LET parts == Split(name, SLASH, 2)
        fail == [err |-> ENOENT, val |-> <<>>] IN
    IF Len(parts) # 3 \/ parts[1] # <<>> THEN fail
    ELSE LET model_type == parts[2]
             name_or_tag == parts[3] IN
         IF model_type \notin {VOLUMES, IMAGES, CONTAINERS} THEN fail
         ELSE LET symlinks == IF model_type = VOLUMES THEN vs
                              ELSE IF model_type = IMAGES THEN is ELSE cs IN
              IF name_or_tag \notin DOMAIN symlinks THEN fail
              ELSE LET sub_dir_depth == Count(name_or_tag, SLASH) IN
                   [err |-> OK,
                    val |-> Repeat(<<DOT, DOT, SLASH>>, sub_dir_depth)
                              \o symlinks[name_or_tag]]

(***************************************************************************)
(* getattr: the Attribute Synthesizer.  An attribute record is            *)
(* [st_mode, st_nlink, st_size].                                          *)
(***************************************************************************)
S_IRALL == 292      \* 0o444
S_IXALL == 73       \* 0o111
S_IFDIR == 16384    \* 0o040000
S_IFREG == 32768    \* 0o100000
S_IFLNK == 40960    \* 0o120000
S_IMODE(mode) == mode % 4096
S_IFMT(mode) == mode - S_IMODE(mode)

\* a or b, on sizes: None and 0 are both false
PyOr(a, b) == IF a # 0 THEN a ELSE b
\* dict.get(k), None written 0: every use below only tests it or adds it
DictGet(d, k) == IF k \in DOMAIN d THEN d[k] ELSE 0

NoCache == [valid |-> FALSE, sizes |-> EmptyDict]

\* _get_sizes() without its ttl_cache: every call asks the engine
get_sizes_uncached(eng, cache) ==
    LET df == Df(eng) IN
    [valid |-> TRUE,
     sizes |-> [id \in { df[i].Id : i \in DOMAIN df } |->
                  LET i == CHOOSE j \in DOMAIN df : df[j].Id = id IN
                  df[i].SizeRootFs]]

\* _get_sizes() under its ttl_cache: the cache after the call
get_sizes(eng, cache) ==
    IF cache.valid THEN cache
    ELSE LET df == Df(eng) IN
         [valid |-> TRUE,
          sizes |-> [id \in { df[i].Id : i \in DOMAIN df } |->
                       LET i == CHOOSE j \in DOMAIN df : df[j].Id = id IN
                       df[i].SizeRootFs]]

\* getattr_(is_file): the base attributes
getattr_(is_file) ==
    [st_mode |-> S_IRALL + (IF is_file THEN S_IFREG ELSE S_IFDIR + S_IXALL),
     st_nlink |-> IF is_file THEN 1 ELSE 2,
     st_size |-> 1000]

NoAttr == [st_mode |-> 0, st_nlink |-> 0, st_size |-> 0]

\* _getattr_from_model preferring the generic size to the root-filesystem size
getattr_from_model_size_first(eng, vs, is, cs, cache, model, name) ==
    LET declared == PyOr(DictGet(model.attrs, "Size"),
                         DictGet(model.attrs, "SizeRootFs"))
        cache2 == IF declared # 0 THEN cache ELSE get_sizes(eng, cache)
        size == PyOr(PyOr(declared, DictGet(cache2.sizes, model.id)), 1000) IN
    [err |-> OK, attr |-> [getattr_(TRUE) EXCEPT !.st_size = size],
     cache |-> cache2]

\* _getattr_from_model(model, name): [err, attr, cache]
getattr_from_model(eng, vs, is, cs, cache, model, name) ==
    LET declared == PyOr(DictGet(model.attrs, "SizeRootFs"),
                         DictGet(model.attrs, "Size"))
        cache2 == IF declared # 0 THEN cache ELSE get_sizes(eng, cache)
        size == PyOr(PyOr(declared, DictGet(cache2.sizes, model.id)), 1000)
        attr == [getattr_(TRUE) EXCEPT !.st_size = size]
        is_link == /\ name # <<>>
                   /\ name[1] # DOT
                   /\ \/ name \in DOMAIN vs
                      \/ name \in DOMAIN is
                      \/ name \in DOMAIN cs IN
    [err |-> OK,
     attr |-> IF is_link
              THEN [attr EXCEPT !.st_mode = S_IMODE(attr.st_mode) + S_IFLNK,
                                !.st_size = 64 + 1 + 3 * Count(name, SLASH)]
              ELSE attr,
     cache |-> cache2]

\* the members counted without regard to the prefix
Members_any_tag(coll, tag_prefix) == DOMAIN coll

\* the members _getattr_from_collection counts: all of them, or those with
\* a tag that starts with the prefix
Members(coll, tag_prefix) ==
    LET prefix == IF tag_prefix # <<>> /\ tag_prefix[Len(tag_prefix)] # SLASH
                  THEN tag_prefix \o <<SLASH>> ELSE tag_prefix IN
    { i \in DOMAIN coll :
        prefix = <<>> \/ \E t \in Range(coll[i].tags) : StartsWith(t, prefix) }

RECURSIVE SumDeclared(_, _)
SumDeclared(coll, members) ==
    IF members = {} THEN 0
    ELSE LET i == CHOOSE x \in members : TRUE IN
         PyOr(DictGet(coll[i].attrs, "SizeRootFs"), DictGet(coll[i].attrs, "Size"))
           + SumDeclared(coll, members \ {i})

\* _getattr_from_collection without the placeholder for an empty sum
getattr_from_collection_no_placeholder(coll, tag_prefix) ==
    LET members == Members(coll, tag_prefix)
        base == getattr_(FALSE) IN
    [base EXCEPT !.st_size = SumDeclared(coll, members),
                 !.st_nlink = base.st_nlink + Cardinality(members)]

\* _getattr_from_collection(collection, tag_prefix)
getattr_from_collection(coll, tag_prefix) ==
    LET members == Members(coll, tag_prefix)
        size == SumDeclared(coll, members)
        base == getattr_(FALSE) IN
    [base EXCEPT !.st_size = PyOr(size, 1000),
                 !.st_nlink = base.st_nlink + Cardinality(members)]

\* _find_from_name that keeps the leading '.'
find_from_name_keeps_dot(coll, name) == CollectionGet(coll, name)

\* _find_from_name(collection, name): a leading '.' is dropped, then get
find_from_name(coll, name) ==
    LET key == IF name[1] = DOT THEN From(name, 1) ELSE name IN
    CollectionGet(coll, key)

\* _getattr(collection, name) of getattr_volumes and getattr_containers
getattr_plain(eng, vs, is, cs, cache, coll, name) ==
    IF name # <<>>
    THEN LET m == find_from_name(coll, name) IN
         IF ~m.found THEN [err |-> ENOENT, attr |-> NoAttr, cache |-> cache]
         ELSE getattr_from_model(eng, vs, is, cs, cache, m.model, name)
    ELSE [err |-> OK, attr |-> getattr_from_collection(coll, <<>>), cache |-> cache]

\* getattr_images(name)
getattr_images(eng, vs, is, cs, cache, name) ==
    IF name # <<>>
    THEN LET key == IF name[1] = DOT THEN From(name, 1) ELSE name
             m == CollectionGet(eng.images, key) IN
         IF ~m.found
         THEN LET result == getattr_from_collection(eng.images, key \o <<SLASH>>) IN
              IF result.st_nlink > 2
              THEN [err |-> OK, attr |-> result, cache |-> cache]
              ELSE [err |-> ENOENT, attr |-> NoAttr, cache |-> cache]
         ELSE getattr_from_model(eng, vs, is, cs, cache, m.model, key)
    ELSE [err |-> OK, attr |-> getattr_from_collection(eng.images, <<>>),
          cache |-> cache]

\* DockerOperations.getattr(path): [err, attr, cache]
getattr(eng, vs, is, cs, cache, path) ==
    LET parts == Split(path, SLASH, 2)
        fail == [err |-> ENOENT, attr |-> NoAttr, cache |-> cache] IN
    IF path = <<SLASH>>
    THEN [err |-> OK,
          attr |-> [getattr_(FALSE) EXCEPT !.st_nlink = Len(ROOT_FOLDERS)],
          cache |-> cache]
    ELSE IF Len(parts) \notin {2, 3} \/ parts[1] # <<>> THEN fail
    ELSE LET name == IF Len(parts) = 3 THEN parts[3] ELSE <<>> IN
         IF parts[2] = VOLUMES
         THEN getattr_plain(eng, vs, is, cs, cache, eng.volumes, name)
         ELSE IF parts[2] = IMAGES
         THEN getattr_images(eng, vs, is, cs, cache, name)
         ELSE IF parts[2] = CONTAINERS
         THEN getattr_plain(eng, vs, is, cs, cache, eng.containers, name)
         ELSE fail

(***************************************************************************)
(* open: the Path Resolver                                                 *)
(***************************************************************************)
\* _find_from_path(path): [err, model]
find_from_path(eng, path) ==
    LET parts == Split(path, SLASH, 3)
        fail(e) == [err |-> e, model |-> <<>>] IN
    IF Len(parts) # 3 \/ parts[1] # <<>> THEN fail("AssertionError")
    ELSE IF parts[2] \notin {VOLUMES, IMAGES, CONTAINERS} THEN fail(ENOENT)
    ELSE IF parts[3] = <<>> THEN fail("IndexError")
    ELSE LET coll == IF parts[2] = VOLUMES THEN eng.volumes
                     ELSE IF parts[2] = IMAGES THEN eng.images
                     ELSE eng.containers
             m == find_from_name(coll, parts[3]) IN
         IF m.found THEN [err |-> OK, model |-> m.model] ELSE fail(ENOENT)

(***************************************************************************)
(* The calls the filesystem bridge makes, one at a time (the dispatcher    *)
(* is single-threaded), and the engine changing under it.                  *)
(***************************************************************************)
Path(category, rest) == <<SLASH>> \o category \o <<SLASH>> \o rest
Dir(category) == <<SLASH>> \o category

DotId(id) == <<DOT>> \o StripSha(id)

\* the directories listed
ReaddirPaths ==
    { <<SLASH>>, Dir(VOLUMES), Dir(IMAGES), Dir(CONTAINERS), Dir(<<"x">>),
      Path(IMAGES, <<"t">>), Path(IMAGES, <<"t", "/">>), Path(IMAGES, TagReg),
      Path(VOLUMES, NameWeb) }
    \cup { Path(IMAGES, DeepDir(k)) : k \in 1..MaxTagDepth }

\* the paths stat'ed
GetattrPaths ==
    { Dir(VOLUMES), Dir(IMAGES), Dir(CONTAINERS),
      Path(IMAGES, <<"t">>), Path(IMAGES, TagApp), Path(IMAGES, TagTeam),
      Path(IMAGES, TagReg), Path(IMAGES, DotId(IMG1)), Path(IMAGES, DotId(IMG2)),
      Path(IMAGES, <<DOT>> \o TagApp), Path(IMAGES, <<DOT, "t">>),
      Path(VOLUMES, NameWeb), Path(VOLUMES, NameDat), Path(VOLUMES, DotId(VOLX)),
      Path(CONTAINERS, NameWeb), Path(CONTAINERS, DotId(CTR1)) }

\* the links read
ReadlinkPaths ==
    { Path(IMAGES, TagApp), Path(IMAGES, TagTeam), Path(IMAGES, TagTeamB),
      Path(IMAGES, TagReg), Path(IMAGES, <<"t">>), Path(IMAGES, TagDeep),
      Path(VOLUMES, NameWeb), Path(VOLUMES, NameDat), Path(CONTAINERS, NameWeb) }

\* a slot of the handle table: None, or the resource opened
None == <<>>
Some(model) == <<model>>
\* [None] * 100
NumDescriptors == 100
NoDescriptors == [i \in 0..(NumDescriptors - 1) |-> None]

\* the record of the most recent call: what was called on which path, how it
\* ended and what it returned; repeat: a readdir that directly follows a
\* readdir of the same path, a release that directly follows a successful
\* release of the same handle; fh: the handle open returned or release was
\* given; ret: what release returned; fail_at: which engine query of the
\* call the engine was going to fail (0: none); upstream: an engine query of
\* the call did fail
NoOp == [op |-> "none", path |-> <<>>, err |-> OK, names |-> <<>>,
         attr |-> NoAttr, target |-> <<>>, repeat |-> FALSE,
         fh |-> -1, ret |-> -1, fail_at |-> 0, upstream |-> FALSE]

Init ==
    /\ engine \in Engines
    /\ volume_symlinks = EmptyDict
    /\ image_symlinks = EmptyDict
    /\ container_symlinks = EmptyDict
    /\ sizes_cache = NoCache
    /\ file_desciptors = NoDescriptors
    /\ lastOp = NoOp

\* the engine's inventory changes (docker pull, tag, rm, run, ...)
EngineChange ==
    /\ \E e \in Engines : e # engine /\ engine' = e
    /\ lastOp' = [NoOp EXCEPT !.op = "engine"]
    /\ UNCHANGED <<volume_symlinks, image_symlinks, container_symlinks,
                   sizes_cache, file_desciptors>>

\* two seconds pass: the ttl_cache entry of _get_sizes expires
CacheExpire ==
    /\ sizes_cache.valid
    /\ sizes_cache' = NoCache
    /\ lastOp' = [NoOp EXCEPT !.op = "expire"]
    /\ UNCHANGED <<engine, volume_symlinks, image_symlinks, container_symlinks,
                   file_desciptors>>

\* readdir answering a full listing of /images from the image table when
\* there is one, instead of asking the engine
Readdir_from_table ==
    \E path \in ReaddirPaths :
        LET r == readdir(engine, volume_symlinks, image_symlinks,
                         container_symlinks, path)
            cached == path = Dir(IMAGES) /\ DOMAIN image_symlinks # {} IN
        /\ volume_symlinks' = r.vs
        /\ image_symlinks' = IF cached THEN image_symlinks ELSE r.is
        /\ container_symlinks' = r.cs
        /\ lastOp' = [NoOp EXCEPT !.op = "readdir", !.path = path,
                                  !.err = r.err,
                                  !.names = IF cached
                                            THEN dots \o KeysInOrder(DOMAIN image_symlinks)
                                            ELSE r.names,
                                  !.repeat = (lastOp.op = "readdir"
                                              /\ lastOp.path = path)]
        /\ UNCHANGED <<engine, sizes_cache, file_desciptors>>

\* readdir adding to the tables instead of replacing them
Readdir_keeps_old ==
    \E path \in ReaddirPaths :
        LET r == readdir(engine, volume_symlinks, image_symlinks,
                         container_symlinks, path)
            merge(old, new) == [k \in DOMAIN old \cup DOMAIN new |->
                                  IF k \in DOMAIN new THEN new[k] ELSE old[k]] IN
        /\ volume_symlinks' = merge(volume_symlinks, r.vs)
        /\ image_symlinks' = merge(image_symlinks, r.is)
        /\ container_symlinks' = merge(container_symlinks, r.cs)
        /\ lastOp' = [NoOp EXCEPT !.op = "readdir", !.path = path,
                                  !.err = r.err, !.names = r.names,
                                  !.repeat = (lastOp.op = "readdir"
                                              /\ lastOp.path = path)]
        /\ UNCHANGED <<engine, sizes_cache, file_desciptors>>

Readdir ==
    \E path \in ReaddirPaths :
        LET r == readdir(engine, volume_symlinks, image_symlinks,
                         container_symlinks, path) IN
        /\ volume_symlinks' = r.vs
        /\ image_symlinks' = r.is
        /\ container_symlinks' = r.cs
        /\ lastOp' = [NoOp EXCEPT !.op = "readdir", !.path = path,
                                  !.err = r.err, !.names = r.names,
                                  !.repeat = (lastOp.op = "readdir"
                                              /\ lastOp.path = path)]
        /\ UNCHANGED <<engine, sizes_cache, file_desciptors>>

Getattr ==
    \E path \in GetattrPaths :
        LET r == getattr(engine, volume_symlinks, image_symlinks,
                         container_symlinks, sizes_cache, path) IN
        /\ sizes_cache' = r.cache
        /\ lastOp' = [NoOp EXCEPT !.op = "getattr", !.path = path,
                                  !.err = r.err, !.attr = r.attr]
        /\ UNCHANGED <<engine, volume_symlinks, image_symlinks,
                       container_symlinks, file_desciptors>>

Readlink ==
    \E path \in ReadlinkPaths :
        LET r == readlink(volume_symlinks, image_symlinks, container_symlinks,
                          path) IN
        /\ lastOp' = [NoOp EXCEPT !.op = "readlink", !.path = path,
                                  !.err = r.err, !.target = r.val]
        /\ UNCHANGED <<engine, volume_symlinks, image_symlinks,
                       container_symlinks, sizes_cache, file_desciptors>>

Next ==
    \/ EngineChange
    \/ CacheExpire
    \/ Readdir
    \/ Getattr
    \/ Readlink

Spec == Init /\ [][Next]_vars


(***************************************************************************)
(* Sizes: the engine taken through inventories whose containers declare    *)
(* a root-filesystem size, a generic size, both or neither, stat'ed while  *)
(* the aggregate-size cache fills and expires.                             *)
(***************************************************************************)
\* a container whose attrs carry SizeRootFs and Size (0: the field is 0)
SizedContainer(id, name, rootfs, size) ==
    [id |-> id, name |-> name, tags |-> <<>>,
     attrs |-> [k \in {"SizeRootFs", "Size"} |->
                  IF k = "SizeRootFs" THEN rootfs ELSE size]]

SizedEngine(rootfs, size) ==
    [images |-> << Image(IMG1, <<TagApp>>, 7) >>,
     containers |-> << SizedContainer(CTR1, NameWeb, rootfs, size) >>,
     volumes |-> << Volume(VOLX, NameDat) >>]

SizedEngines ==
    Engines \cup { SizedEngine(3, 4), SizedEngine(0, 4), SizedEngine(0, 0) }

InitSizes ==
    /\ engine \in SizedEngines
    /\ volume_symlinks = EmptyDict
    /\ image_symlinks = EmptyDict
    /\ container_symlinks = EmptyDict
    /\ sizes_cache = NoCache
    /\ file_desciptors = NoDescriptors
    /\ lastOp = NoOp

EngineChangeSizes ==
    /\ \E e \in SizedEngines : e # engine /\ engine' = e
    /\ lastOp' = [NoOp EXCEPT !.op = "engine"]
    /\ UNCHANGED <<volume_symlinks, image_symlinks, container_symlinks,
                   sizes_cache, file_desciptors>>

NextSizes ==
    \/ EngineChangeSizes
    \/ CacheExpire
    \/ Getattr

SpecSizes == InitSizes /\ [][NextSizes]_vars

(***************************************************************************)
(* DockerContextWithRead: open and release on the handle table.           *)
(***************************************************************************)
\* at most MaxOpen handles are open at a time
MaxOpen == 3

\* the slots in use
OpenSlots(fds) == { i \in DOMAIN fds : fds[i] # None }

\* release that takes an empty slot for released
release_idempotent(fds, fh) ==
    IF fh \notin DOMAIN fds THEN [err |-> "IndexError", fds |-> fds, ret |-> -1]
    ELSE [err |-> OK, fds |-> [fds EXCEPT ![fh] = None], ret |-> 0]

\* open that allocates the first free slot from index 0
open_from_zero(eng, fds, path) ==
    LET r == find_from_path(eng, path)
        free == { i \in DOMAIN fds : fds[i] = None } IN
    IF r.err # OK THEN [err |-> r.err, fds |-> fds, fh |-> -1]
    ELSE IF free = {} THEN [err |-> "ValueError", fds |-> fds, fh |-> -1]
    ELSE LET idx == CHOOSE i \in free : \A j \in free : i <= j IN
         [err |-> OK, fds |-> [fds EXCEPT ![idx] = Some(r.model)], fh |-> idx]

\* open that never goes back to a released slot: it takes the slot after
\* the highest one in use
open_after_highest(eng, fds, path) ==
    LET r == find_from_path(eng, path)
        used == { i \in DOMAIN fds : i >= 3 /\ fds[i] # None }
        idx == IF used = {} THEN 3
               ELSE 1 + CHOOSE i \in used : \A j \in used : j <= i IN
    IF r.err # OK THEN [err |-> r.err, fds |-> fds, fh |-> -1]
    ELSE IF idx \notin DOMAIN fds THEN [err |-> "ValueError", fds |-> fds, fh |-> -1]
    ELSE [err |-> OK, fds |-> [fds EXCEPT ![idx] = Some(r.model)], fh |-> idx]

\* DockerContextWithRead.open(path, flags): [err, fds, fh]
open(eng, fds, path) ==
    LET r == find_from_path(eng, path)
        free == { i \in DOMAIN fds : i >= 3 /\ fds[i] = None } IN
    IF r.err # OK THEN [err |-> r.err, fds |-> fds, fh |-> -1]
    ELSE IF free = {} THEN [err |-> "ValueError", fds |-> fds, fh |-> -1]
    ELSE LET idx == CHOOSE i \in free : \A j \in free : i <= j IN
         [err |-> OK, fds |-> [fds EXCEPT ![idx] = Some(r.model)], fh |-> idx]

\* DockerContextWithRead.release(path, fh): [err, fds, ret]
release(fds, fh) ==
    IF fh \notin DOMAIN fds THEN [err |-> "IndexError", fds |-> fds, ret |-> -1]
    ELSE IF fds[fh] = None
    THEN [err |-> "AssertionError", fds |-> fds, ret |-> -1]
    ELSE [err |-> OK, fds |-> [fds EXCEPT ![fh] = None], ret |-> 0]

\* the paths opened
OpenPaths ==
    { Dir(IMAGES), Path(IMAGES, <<>>), Dir(<<"x">>), Path(<<"x">>, NameWeb),
      Path(IMAGES, TagApp), Path(IMAGES, TagTeam), Path(IMAGES, DotId(IMG1)),
      Path(IMAGES, DotId(IMG2)), Path(IMAGES, <<"t">>),
      Path(VOLUMES, NameWeb), Path(VOLUMES, NameDat),
      Path(CONTAINERS, NameWeb), Path(CONTAINERS, DotId(CTR1)) }

\* the handles released: the reserved low ones, the ones open can have
\* given out, one beyond them and one beyond the table
ReleaseHandles == 0..(MaxOpen + 3) \cup {NumDescriptors}

Open ==
    /\ Cardinality(OpenSlots(file_desciptors)) < MaxOpen
    /\ \E path \in OpenPaths :
        LET r == open(engine, file_desciptors, path) IN
        /\ file_desciptors' = r.fds
        /\ lastOp' = [NoOp EXCEPT !.op = "open", !.path = path,
                                  !.err = r.err, !.fh = r.fh]
    /\ UNCHANGED <<engine, volume_symlinks, image_symlinks,
                   container_symlinks, sizes_cache>>

Release ==
    /\ \E fh \in ReleaseHandles :
        LET r == release(file_desciptors, fh) IN
        /\ file_desciptors' = r.fds
        /\ lastOp' = [NoOp EXCEPT !.op = "release", !.err = r.err,
                                  !.fh = fh, !.ret = r.ret,
                                  !.repeat = (/\ lastOp.op = "release"
                                              /\ lastOp.fh = fh
                                              /\ lastOp.err = OK)]
    /\ UNCHANGED <<engine, volume_symlinks, image_symlinks,
                   container_symlinks, sizes_cache>>

NextRead ==
    \/ Open
    \/ Release

SpecRead == Init /\ [][NextRead]_vars

(***************************************************************************)
(* Exhaustion: the handle table filled to its last slot.  One resource is  *)
(* opened again and again (and a path that names none), and a few handles  *)
(* are released: the reserved ones, the two lowest and the highest that    *)
(* open gives out, and one beyond the table.                               *)
(***************************************************************************)
FillPaths == { Path(VOLUMES, NameWeb), Dir(IMAGES) }
FillHandles == {0, 2, 3, 4, NumDescriptors - 1, NumDescriptors}

OpenFill ==
    /\ \E path \in FillPaths :
        LET r == open(engine, file_desciptors, path) IN
        /\ file_desciptors' = r.fds
        /\ lastOp' = [NoOp EXCEPT !.op = "open", !.path = path,
                                  !.err = r.err, !.fh = r.fh]
    /\ UNCHANGED <<engine, volume_symlinks, image_symlinks,
                   container_symlinks, sizes_cache>>

ReleaseFill ==
    /\ \E fh \in FillHandles :
        LET r == release(file_desciptors, fh) IN
        /\ file_desciptors' = r.fds
        /\ lastOp' = [NoOp EXCEPT !.op = "release", !.err = r.err,
                                  !.fh = fh, !.ret = r.ret,
                                  !.repeat = (/\ lastOp.op = "release"
                                              /\ lastOp.fh = fh
                                              /\ lastOp.err = OK)]
    /\ UNCHANGED <<engine, volume_symlinks, image_symlinks,
                   container_symlinks, sizes_cache>>

NextFill ==
    \/ OpenFill
    \/ ReleaseFill

SpecFill == Init /\ [][NextFill]_vars

(***************************************************************************)
(* Upstream failures: the engine failing a query of a call (connection    *)
(* refused, permission denied), an error that is not its NotFound.        *)
(* fail_at numbers the engine queries of one call: 1 is the first         *)
(* (collection.get or collection.list), 2 the second (the list of the     *)
(* tag-directory fallback, or api.df()); 0 means every query is answered. *)
(***************************************************************************)
UpstreamError == "APIError"

\* a result with the upstream mark added to it
Marked(result, upstream) ==
    [k \in DOMAIN result \cup {"upstream"} |->
       IF k = "upstream" THEN upstream ELSE result[k]]

\* DockerOperations.getattr(path) with query fail_at failing:
\* [err, attr, cache, upstream]
getattr_upstream(eng, vs, is, cs, cache, path, fail_at) ==
    LET parts == Split(path, SLASH, 2)
        routed == /\ path # <<SLASH>>
                  /\ Len(parts) \in {2, 3}
                  /\ parts[1] = <<>>
                  /\ parts[2] \in {VOLUMES, IMAGES, CONTAINERS}
        name == IF Len(parts) = 3 THEN parts[3] ELSE <<>>
        coll == IF parts[2] = VOLUMES THEN eng.volumes
                ELSE IF parts[2] = IMAGES THEN eng.images
                ELSE eng.containers
        m == find_from_name(coll, name)
        declared == PyOr(DictGet(m.model.attrs, "SizeRootFs"),
                         DictGet(m.model.attrs, "Size"))
        outcome ==
            IF fail_at = 0 \/ ~routed THEN OK
            ELSE IF fail_at = 1 THEN UpstreamError  \* collection.get, .list
            ELSE IF name = <<>> THEN OK             \* the list was the only query
            ELSE IF ~m.found
            THEN IF parts[2] = IMAGES
                 THEN ENOENT                        \* except Exception: pass
                 ELSE OK                            \* NotFound: no second query
            ELSE IF declared = 0 /\ ~cache.valid
            THEN UpstreamError                      \* api.df() in _get_sizes
            ELSE OK IN
    IF outcome = OK
    THEN Marked(getattr(eng, vs, is, cs, cache, path), FALSE)
    ELSE [err |-> outcome, attr |-> NoAttr, cache |-> cache, upstream |-> TRUE]

\* DockerOperations.readdir(path) with query fail_at failing:
\* [err, names, vs, is, cs, upstream]
readdir_upstream(eng, vs, is, cs, path, fail_at) ==
    LET rel == From(path, 1)
        parts == IF IndexOf(rel, SLASH) # 0 THEN Split(rel, SLASH, 1) ELSE <<rel>>
        rel_path == parts[1]
        has_prefix == Len(parts) = 2
        \* the category whose list query the call makes, if it makes one
        queried ==
            IF path = <<>> \/ path[1] # SLASH THEN <<>>
            ELSE IF ~has_prefix /\ rel_path \in {VOLUMES, IMAGES, CONTAINERS}
            THEN rel_path
            ELSE IF /\ has_prefix
                    /\ rel_path \in {IMAGES, IMAGE_TAGS}
                    /\ parts[2] # <<>>
                    /\ DOMAIN is = {}
            THEN IMAGES                    \* readdir_images(sym_links_only=True)
            ELSE <<>> IN
    IF fail_at # 1 \/ queried = <<>>
    THEN Marked(readdir(eng, vs, is, cs, path), FALSE)
    ELSE \* the reader bound a fresh table, then its list query raised
         [err |-> UpstreamError, names |-> dots,
          vs |-> IF queried = VOLUMES THEN EmptyDict ELSE vs,
          is |-> IF queried = IMAGES THEN EmptyDict ELSE is,
          cs |-> IF queried = CONTAINERS THEN EmptyDict ELSE cs,
          upstream |-> TRUE]

\* how the engine meets the queries of a call
FailAt == {0, 1, 2}

ReaddirUpstream ==
    \E path \in ReaddirPaths, fail_at \in FailAt :
        LET r == readdir_upstream(engine, volume_symlinks, image_symlinks,
                                  container_symlinks, path, fail_at) IN
        /\ volume_symlinks' = r.vs
        /\ image_symlinks' = r.is
        /\ container_symlinks' = r.cs
        /\ lastOp' = [NoOp EXCEPT !.op = "readdir", !.path = path,
                                  !.err = r.err, !.names = r.names,
                                  !.repeat = (lastOp.op = "readdir"
                                              /\ lastOp.path = path),
                                  !.fail_at = fail_at,
                                  !.upstream = r.upstream]
        /\ UNCHANGED <<engine, sizes_cache, file_desciptors>>

GetattrUpstream ==
    \E path \in GetattrPaths, fail_at \in FailAt :
        LET r == getattr_upstream(engine, volume_symlinks, image_symlinks,
                                  container_symlinks, sizes_cache, path,
                                  fail_at) IN
        /\ sizes_cache' = r.cache
        /\ lastOp' = [NoOp EXCEPT !.op = "getattr", !.path = path,
                                  !.err = r.err, !.attr = r.attr,
                                  !.fail_at = fail_at,
                                  !.upstream = r.upstream]
        /\ UNCHANGED <<engine, volume_symlinks, image_symlinks,
                       container_symlinks, file_desciptors>>

NextUpstream ==
    \/ ReaddirUpstream
    \/ GetattrUpstream
    \/ CacheExpire

SpecUpstream == Init /\ [][NextUpstream]_vars
(***************************************************************************)
(* Vocabulary of the properties                                            *)
(***************************************************************************)
Categories == {VOLUMES, IMAGES, CONTAINERS}
Table(category) ==
    IF category = VOLUMES THEN volume_symlinks
    ELSE IF category = IMAGES THEN image_symlinks
    ELSE container_symlinks
Collection(eng, category) ==
    IF category = VOLUMES THEN eng.volumes
    ELSE IF category = IMAGES THEN eng.images
    ELSE eng.containers

\* how often n occurs in a sequence of names
Occurrences(names, n) == Cardinality({ k \in DOMAIN names : names[k] = n })
\* a listing without its first two names
Entries(names) == From(names, 2)

ListedOk(path) ==
    /\ lastOp.op = "readdir"
    /\ lastOp.path = path
    /\ lastOp.err = OK
StatOk ==
    /\ lastOp.op = "getattr"
    /\ lastOp.err = OK

\* /images/<prefix>, the prefix with or without a trailing '/'
IsPrefixPath(path) ==
    /\ StartsWith(path, Path(IMAGES, <<>>))
    /\ Len(path) > Len(Path(IMAGES, <<>>))
PrefixOf(path) ==
    LET p == From(path, Len(Path(IMAGES, <<>>))) IN
    IF p[Len(p)] = SLASH THEN p ELSE p \o <<SLASH>>

\* the tags of all images, and the image that carries a tag
AllTags(eng) == UNION { Range(eng.images[i].tags) : i \in DOMAIN eng.images }
TagSlots(eng) == UNION { DOMAIN eng.images[i].tags : i \in DOMAIN eng.images }
FirstSegment(t) == SubSeq(t, 1, IndexOf(t, SLASH) - 1)
HasSlash(t) == IndexOf(t, SLASH) # 0

(***************************************************************************)
(* C1: a full listing of /images emits every image's identifier entry,    *)
(* every tag without '/' verbatim, and for the tags with '/' the segment  *)
(* before the first '/', once per listing however many tags of however    *)
(* many images share it.  One image sha256:X tagged a:1 and t/a:2 lists   *)
(* as exactly {.X, a:1, t}.                                                *)
(***************************************************************************)
\* how often a full listing of the images is to emit n
ExpectedImageOccurrences(eng, n) ==
    Cardinality({ i \in DOMAIN eng.images : DotId(eng.images[i].id) = n })
    + Cardinality({ ij \in (DOMAIN eng.images) \X TagSlots(eng) :
                      /\ ij[2] \in DOMAIN eng.images[ij[1]].tags
                      /\ ~HasSlash(eng.images[ij[1]].tags[ij[2]])
                      /\ eng.images[ij[1]].tags[ij[2]] = n })
    + (IF \E t \in AllTags(eng) : HasSlash(t) /\ FirstSegment(t) = n
       THEN 1 ELSE 0)

ExpectedImageNames(eng) ==
    { DotId(eng.images[i].id) : i \in DOMAIN eng.images }
    \cup { t \in AllTags(eng) : ~HasSlash(t) }
    \cup { FirstSegment(t) : t \in { u \in AllTags(eng) : HasSlash(u) } }

C1_FullImageListing ==
    lastOp.op = "readdir" /\ lastOp.path = Dir(IMAGES) =>
        /\ lastOp.err = OK
        /\ Range(Entries(lastOp.names)) = ExpectedImageNames(engine)
        /\ \A n \in ExpectedImageNames(engine) :
             Occurrences(Entries(lastOp.names), n)
               = ExpectedImageOccurrences(engine, n)
        /\ engine.images = << Image(IMG1, <<TagApp, TagTeam>>, 7) >> =>
             Range(Entries(lastOp.names)) = { DotId(IMG1), TagApp, <<"t">> }

\* /images was listed while two images carry tags under the same directory
C1_Witness ==
    /\ ListedOk(Dir(IMAGES))
    /\ \E i, j \in DOMAIN engine.images :
         /\ i # j
         /\ \E t \in Range(engine.images[i].tags), u \in Range(engine.images[j].tags) :
              HasSlash(t) /\ HasSlash(u) /\ FirstSegment(t) = FirstSegment(u)
    /\ <<"t">> \in Range(lastOp.names)

(***************************************************************************)
(* C2: for every tag entry a listing produced (a full listing of a        *)
(* category, or a prefix listing of /images/<prefix>), readlink on the    *)
(* entry's full path, right after the listing, returns '../' once per '/' *)
(* of the tag, followed by the identifier entry of the resource that      *)
(* carries the tag, and the category's full listing emits that entry.     *)
(***************************************************************************)
\* the category a listed path belongs to, the key of entry n of the listing
\* in the category's table, and the entry's own path
CategoryOf(path) == Split(From(path, 1), SLASH, 1)[1]
KeyOf(path, n) ==
    IF path = Dir(CategoryOf(path)) THEN n
    ELSE From(PrefixOf(path), 0) \o n
EntryPath(path, n) == Path(CategoryOf(path), KeyOf(path, n))

\* the tag entries of the listing just made: the names that are links
TagEntries(path) ==
    { n \in Range(Entries(lastOp.names)) :
        n[1] # DOT /\ KeyOf(path, n) \in DOMAIN Table(CategoryOf(path)) }

\* readlink on entry n of the listing of path gives the way up and the
\* identifier entry of a resource that carries the tag now
LinkReachesCarrier(path, n) ==
    LET key == KeyOf(path, n)
        coll == Collection(engine, CategoryOf(path))
        r == readlink(volume_symlinks, image_symlinks, container_symlinks,
                      EntryPath(path, n))
        full == readdir(engine, volume_symlinks, image_symlinks,
                        container_symlinks, Dir(CategoryOf(path))) IN
    /\ r.err = OK
    /\ \E i \in DOMAIN coll :
         /\ key \in Range(coll[i].tags) \/ (coll[i].name # NoName /\ coll[i].name = key)
         /\ r.val = Repeat(<<DOT, DOT, SLASH>>, Count(key, SLASH)) \o DotId(coll[i].id)
         /\ DotId(coll[i].id) \in Range(full.names)

IsListingPath(path) ==
    \/ \E c \in Categories : path = Dir(c)
    \/ IsPrefixPath(path)

\* C2 as claimed: every listing, whatever the age of the table it reads
C2_Original ==
    \A path \in ReaddirPaths :
        ListedOk(path) /\ IsListingPath(path) =>
            \A n \in TagEntries(path) : LinkReachesCarrier(path, n)

\* the image table is what a full listing of the images would build now
ImageTableCurrent == image_symlinks = readdir_images(engine, TRUE).syms

\* C2, amended: every tag entry of a full listing of a category, and every
\* tag entry of a prefix listing made while the image table matches the
\* engine's images, reads as the way up followed by the identifier entry of
\* the resource carrying the tag; a prefix listing over an older table
\* reads as the way up followed by the identifier entry the table recorded
C2_LinkTargets ==
    \A path \in ReaddirPaths :
        ListedOk(path) /\ IsListingPath(path) =>
            \A n \in TagEntries(path) :
                /\ IsPrefixPath(path) /\ ~ImageTableCurrent =>
                     LET r == readlink(volume_symlinks, image_symlinks,
                                       container_symlinks, EntryPath(path, n)) IN
                     /\ r.err = OK
                     /\ r.val = Repeat(<<DOT, DOT, SLASH>>,
                                       Count(KeyOf(path, n), SLASH))
                                  \o image_symlinks[KeyOf(path, n)]
                /\ ~IsPrefixPath(path) \/ ImageTableCurrent =>
                     LinkReachesCarrier(path, n)

\* /images/t was listed over a current table and gave the tag entry a:2
C2_Witness ==
    /\ ListedOk(Path(IMAGES, <<"t">>))
    /\ ImageTableCurrent
    /\ <<"a", ":", "2">> \in TagEntries(lastOp.path)
    /\ LinkReachesCarrier(lastOp.path, <<"a", ":", "2">>)

(***************************************************************************)
(* C3: every identifier entry (dot-prefixed name) a listing of /C emits   *)
(* resolves, with the engine unchanged, to the resource whose identifier  *)
(* is the entry without its '.', up to the "sha256:" prefix; never        *)
(* NotFound, never another resource.                                      *)
(***************************************************************************)
C3_IdentifierEntriesResolve ==
    \A c \in Categories :
        ListedOk(Dir(c)) =>
            \A e \in Range(Entries(lastOp.names)) :
                e[1] = DOT =>
                    LET r == find_from_path(engine, Path(c, e)) IN
                    /\ r.err = OK
                    /\ StripSha(r.model.id) = From(e, 1)

\* a category was listed and gave identifier entries: two of /images, or
\* the one of a volume whose id is not its name
C3_Witness ==
    \/ /\ ListedOk(Dir(IMAGES))
       /\ { DotId(IMG1), DotId(IMG2) } \subseteq Range(lastOp.names)
       /\ find_from_path(engine, Path(IMAGES, DotId(IMG2))).model.id = IMG2
    \/ /\ ListedOk(Dir(VOLUMES))
       /\ DotId(VOLX) \in Range(lastOp.names)
       /\ find_from_path(engine, Path(VOLUMES, DotId(VOLX))).model.id = VOLX

(***************************************************************************)
(* C4: listing the same category twice in immediate succession, the       *)
(* engine unchanged, gives the same set of names both times and leaves    *)
(* the category's table equal to the table after the first listing.       *)
(***************************************************************************)
C4_ListingIdempotent ==
    [][ \A c \in Categories :
          ( /\ lastOp.op = "readdir" /\ lastOp.path = Dir(c)
            /\ lastOp'.op = "readdir" /\ lastOp'.path = Dir(c)
            /\ engine' = engine )
          => /\ Range(lastOp'.names) = Range(lastOp.names)
             /\ lastOp'.err = lastOp.err
             /\ Table(c)' = Table(c) ]_vars

\* /images, with images in it, was listed twice in a row
C4_Witness ==
    /\ ListedOk(Dir(IMAGES))
    /\ lastOp.repeat
    /\ Len(lastOp.names) > 3
    /\ DOMAIN image_symlinks # {}

(***************************************************************************)
(* C5: readdir of /C yields '.' and '..' first and after them no name     *)
(* twice: a synthetic directory name never coincides with a verbatim tag  *)
(* entry or another resource's name of the same listing.                  *)
(***************************************************************************)
C5_NoDuplicateNames ==
    \A c \in Categories :
        ListedOk(Dir(c)) =>
            /\ lastOp.names[1] = <<DOT>>
            /\ lastOp.names[2] = <<DOT, DOT>>
            /\ \A n \in Range(Entries(lastOp.names)) :
                 Occurrences(Entries(lastOp.names), n) = 1

(***************************************************************************)
(* C6: a prefix listing of /images/<prefix> succeeds for tags of any      *)
(* depth and emits, for the tags of the table under prefix + '/', the     *)
(* next segment only: the remainder when it has no '/', else the part     *)
(* before its next '/', each directory name once; a trailing '/' on the   *)
(* prefix changes nothing.                                                *)
(***************************************************************************)
\* what is left of the table's tags under the prefix of path
Remainders(path) ==
    { From(k, Len(PrefixOf(path))) :
        k \in { t \in DOMAIN image_symlinks : StartsWith(t, PrefixOf(path)) } }
ExpectedPrefixOccurrences(path, n) ==
    (IF \E rem \in Remainders(path) : ~HasSlash(rem) /\ rem = n THEN 1 ELSE 0)
    + (IF \E rem \in Remainders(path) : HasSlash(rem) /\ FirstSegment(rem) = n
       THEN 1 ELSE 0)
ExpectedPrefixNames(path) ==
    { IF HasSlash(rem) THEN FirstSegment(rem) ELSE rem : rem \in Remainders(path) }

C6_PrefixListing ==
    \A path \in ReaddirPaths :
        lastOp.op = "readdir" /\ lastOp.path = path /\ IsPrefixPath(path) =>
            /\ lastOp.err = OK
            /\ Range(Entries(lastOp.names)) = ExpectedPrefixNames(path)
            /\ \A n \in ExpectedPrefixNames(path) :
                 Occurrences(Entries(lastOp.names), n)
                   = ExpectedPrefixOccurrences(path, n)

(***************************************************************************)
(* C7: when a full listing of category C completes (no prefix, or a       *)
(* prefix listing that found the table empty), C's table is exactly the   *)
(* mapping tag-or-name -> '.' + id of the resources the engine returned:  *)
(* nothing of the earlier table survives, nothing new is missing.         *)
(***************************************************************************)
\* the resource of a collection that carries a tag or name
Carrier(coll, key) ==
    coll[CHOOSE i \in DOMAIN coll :
           key \in Range(coll[i].tags) \/ coll[i].name = key]
\* the names and tags that get a link: all of them, but for a volume whose
\* identifier is its name
LinkedKeys(eng, c) ==
    IF c = IMAGES THEN AllTags(eng)
    ELSE IF c = CONTAINERS
    THEN { eng.containers[i].name : i \in DOMAIN eng.containers }
    ELSE { eng.volumes[i].name :
             i \in { j \in DOMAIN eng.volumes :
                       StripSha(eng.volumes[j].id) # eng.volumes[j].name } }
ExpectedTable(eng, c) ==
    [ k \in LinkedKeys(eng, c) |-> DotId(Carrier(Collection(eng, c), k).id) ]

C7_TableReplaced ==
    [][ \A c \in Categories :
          ( /\ lastOp'.op = "readdir"
            /\ lastOp'.err = OK
            /\ \/ lastOp'.path = Dir(c)
               \/ /\ c = IMAGES
                  /\ IsPrefixPath(lastOp'.path)
                  /\ DOMAIN image_symlinks = {} )
          => Table(c)' = ExpectedTable(engine', c) ]_vars

\* /images was listed and its table holds the tags of two images
C7_Witness ==
    /\ ListedOk(Dir(IMAGES))
    /\ Len(engine.images) = 2
    /\ DOMAIN image_symlinks = AllTags(engine)
    /\ Cardinality(DOMAIN image_symlinks) >= 2

(***************************************************************************)
(* C8: getattr on a tag or name entry that is a symbolic link returns     *)
(* symbolic-link type bits and st_size = len(identifier) + 1 + 3 * (the   *)
(* number of '/' in the tag), the length of what readlink returns, for    *)
(* identifiers of any length.                                             *)
(***************************************************************************)
\* the category and the name of a stat'ed path /<category>/<name>
StatCategory == Split(lastOp.path, SLASH, 2)[2]
StatName == IF Len(Split(lastOp.path, SLASH, 2)) = 3
            THEN Split(lastOp.path, SLASH, 2)[3] ELSE <<>>
IsLink(attr) == S_IFMT(attr.st_mode) = S_IFLNK
IsRegular(attr) == S_IFMT(attr.st_mode) = S_IFREG
IsDirectory(attr) == S_IFMT(attr.st_mode) = S_IFDIR

C8_LinkSize ==
    StatOk /\ IsLink(lastOp.attr) =>
        LET m == find_from_name(Collection(engine, StatCategory), StatName) IN
        /\ m.found
        /\ lastOp.attr.st_size
             = Len(StripSha(m.model.id)) + 1 + 3 * Count(StatName, SLASH)

(***************************************************************************)
(* C9: getattr on /C/<name> reports symbolic-link type bits if and only   *)
(* if <name> does not start with '.' and is a key of C's own table; a     *)
(* name that is a key of another category's table only is reported as a   *)
(* regular file.                                                           *)
(***************************************************************************)
C9_LinkIffInOwnTable ==
    StatOk /\ StatName # <<>> =>
        ( IsLink(lastOp.attr)
            <=> ( /\ StatName[1] # DOT
                  /\ StatName \in DOMAIN Table(StatCategory) ) )

(***************************************************************************)
(* C10: the st_size getattr gives for a category directory, or for a      *)
(* tag-prefix directory of /images, is the sum of the sizes of its        *)
(* members whenever a member has a nonzero size, and the placeholder 1000 *)
(* when the sum would be zero.                                            *)
(***************************************************************************)
\* the members of the directory just stat'ed: all of the category, or
\* those with a tag under the prefix (the name, a leading '.' dropped)
StatMembers ==
    LET coll == Collection(engine, StatCategory)
        prefix == IF StatName # <<>> /\ StatName[1] = DOT
                  THEN From(StatName, 1) ELSE StatName IN
    { i \in DOMAIN coll :
        \/ StatName = <<>>
        \/ \E t \in Range(coll[i].tags) : StartsWith(t, prefix \o <<SLASH>>) }

\* the size getattr reports for the identifier entry of member i
StatSizeOfMember(i) ==
    getattr(engine, volume_symlinks, image_symlinks, container_symlinks,
            sizes_cache,
            Path(StatCategory, DotId(Collection(engine, StatCategory)[i].id))
           ).attr.st_size

\* the size member i declares: its SizeRootFs, else its Size, else nothing
DeclaredSizeOfMember(i) ==
    LET attrs == Collection(engine, StatCategory)[i].attrs IN
    IF "SizeRootFs" \in DOMAIN attrs /\ attrs["SizeRootFs"] # 0
    THEN attrs["SizeRootFs"]
    ELSE IF "Size" \in DOMAIN attrs THEN attrs["Size"] ELSE 0

RECURSIVE SumStatSizes(_)
SumStatSizes(set) ==
    IF set = {} THEN 0
    ELSE LET x == CHOOSE y \in set : TRUE IN
         StatSizeOfMember(x) + SumStatSizes(set \ {x})

RECURSIVE SumDeclaredSizes(_)
SumDeclaredSizes(set) ==
    IF set = {} THEN 0
    ELSE LET x == CHOOSE y \in set : TRUE IN
         DeclaredSizeOfMember(x) + SumDeclaredSizes(set \ {x})

\* C10 as claimed: a member's size is what getattr reports for it
C10_Original ==
    StatOk /\ IsDirectory(lastOp.attr) /\ lastOp.path # <<SLASH>> =>
        lastOp.attr.st_size
          = IF SumStatSizes(StatMembers) = 0 THEN 1000
            ELSE SumStatSizes(StatMembers)

\* C10, amended: a member's size is the size it declares (SizeRootFs, else
\* Size, else 0), not the size getattr reports for it
C10_DirectorySize ==
    StatOk /\ IsDirectory(lastOp.attr) /\ lastOp.path # <<SLASH>> =>
        lastOp.attr.st_size
          = IF SumDeclaredSizes(StatMembers) = 0 THEN 1000
            ELSE SumDeclaredSizes(StatMembers)

\* /images was stat'ed with two images in it, one of a nonzero size
C10_Witness ==
    /\ StatOk
    /\ lastOp.path = Dir(IMAGES)
    /\ Cardinality(StatMembers) = 2
    /\ lastOp.attr.st_size = 7


(***************************************************************************)
(* C11: for a resource reported as a regular file, st_size is its         *)
(* root-filesystem size if present and nonzero, else its generic size if  *)
(* present and nonzero, else what the aggregate-size mapping holds for    *)
(* its identifier if nonzero, else the placeholder 1000; no getattr       *)
(* result has st_size 0.                                                  *)
(***************************************************************************)
\* the resource a stat'ed path /<category>/<name> names
StatResource ==
    CollectionGet(Collection(engine, StatCategory),
                  IF StatName[1] = DOT THEN From(StatName, 1) ELSE StatName)

\* the size chosen for resource m, the aggregate-size mapping being sizes
PreferredSize(m, sizes) ==
    IF "SizeRootFs" \in DOMAIN m.attrs /\ m.attrs["SizeRootFs"] # 0
    THEN m.attrs["SizeRootFs"]
    ELSE IF "Size" \in DOMAIN m.attrs /\ m.attrs["Size"] # 0
    THEN m.attrs["Size"]
    ELSE IF m.id \in DOMAIN sizes /\ sizes[m.id] # 0
    THEN sizes[m.id]
    ELSE 1000

\* C11: the size preference order of a regular file, and no size is 0
C11_SizePreference ==
    /\ StatOk /\ IsRegular(lastOp.attr) =>
         /\ StatResource.found
         /\ lastOp.attr.st_size
              = PreferredSize(StatResource.model, sizes_cache.sizes)
    /\ StatOk => lastOp.attr.st_size # 0

\* a container that declares both sizes was stat'ed: the root-filesystem
\* size won
C11_Witness ==
    /\ StatOk /\ IsRegular(lastOp.attr)
    /\ lastOp.path = Path(CONTAINERS, DotId(CTR1))
    /\ engine = SizedEngine(3, 4)
    /\ lastOp.attr.st_size = 3

(***************************************************************************)
(* C12: a dispatcher operation on a path whose first segment is none of   *)
(* volumes, images, containers fails with ENOENT, and with no other       *)
(* exception.                                                             *)
(***************************************************************************)
\* C12: an operation on a path outside the three categories ends in ENOENT
C12_InvalidCategory ==
    /\ lastOp.op \in {"getattr", "readdir", "readlink", "open"}
    /\ lastOp.path # <<SLASH>>
    /\ CategoryOf(lastOp.path) \notin Categories
    => lastOp.err = ENOENT

(***************************************************************************)
(* C13: everything after '/<category>/' is one lookup key, further '/'    *)
(* included: open of /images/<tag>, for a tag with '/' that an image      *)
(* carries, succeeds on that image, as getattr does.                      *)
(***************************************************************************)
\* the resource a path /<category>/<key> names, the key being all that
\* follows the category
KeyResource(eng, path) ==
    LET parts == Split(path, SLASH, 2)
        key == parts[3] IN
    CollectionGet(Collection(eng, parts[2]),
                  IF key[1] = DOT THEN From(key, 1) ELSE key)

\* a path /<category>/<key> with a key that names a resource
NamesResource(eng, path) ==
    /\ Len(Split(path, SLASH, 2)) = 3
    /\ Split(path, SLASH, 2)[2] \in Categories
    /\ Split(path, SLASH, 2)[3] # <<>>
    /\ KeyResource(eng, path).found

\* C13: open of a path whose key names a resource gives a handle on it
C13_OpenResolvesWholeKey ==
    lastOp.op = "open" /\ NamesResource(engine, lastOp.path) =>
        /\ lastOp.err = OK
        /\ file_desciptors[lastOp.fh] = Some(KeyResource(engine, lastOp.path).model)

\* C13, getattr: a stat of a path whose key names a resource succeeds
C13_GetattrResolvesWholeKey ==
    lastOp.op = "getattr" /\ NamesResource(engine, lastOp.path) =>
        lastOp.err = OK

(***************************************************************************)
(* C14: getattr on /images/<p>, <p> not dot-prefixed and naming no image, *)
(* gives directory attributes exactly when an image has a tag that starts *)
(* with p + '/'; st_nlink is then 2 plus the number of such images, and   *)
(* otherwise the call fails with ENOENT.                                  *)
(***************************************************************************)
\* the images with a tag under the directory p
ImagesUnder(eng, p) ==
    { i \in DOMAIN eng.images :
        \E t \in Range(eng.images[i].tags) : StartsWith(t, p \o <<SLASH>>) }

\* /images/<p> was stat'ed, p not dot-prefixed and naming no image
StatOfTagDirectory ==
    /\ lastOp.op = "getattr"
    /\ Len(Split(lastOp.path, SLASH, 2)) = 3
    /\ StatCategory = IMAGES
    /\ StatName # <<>>
    /\ StatName[1] # DOT
    /\ ~CollectionGet(engine.images, StatName).found

\* C14: a tag directory exists exactly when some tag lies under it
C14_TagDirectory ==
    StatOfTagDirectory =>
        IF ImagesUnder(engine, StatName) # {}
        THEN /\ lastOp.err = OK
             /\ IsDirectory(lastOp.attr)
             /\ lastOp.attr.st_nlink = 2 + Cardinality(ImagesUnder(engine, StatName))
        ELSE lastOp.err = ENOENT

\* /images/t was stat'ed with two images tagged under t
C14_Witness ==
    /\ StatOfTagDirectory
    /\ lastOp.path = Path(IMAGES, <<"t">>)
    /\ Cardinality(ImagesUnder(engine, StatName)) = 2
    /\ lastOp.attr.st_nlink = 4

(***************************************************************************)
(* C15: an engine failure other than NotFound, raised during a call,      *)
(* reaches the caller unchanged: it is never turned into ENOENT or        *)
(* another error and never swallowed.                                     *)
(***************************************************************************)
C15_UpstreamFailurePropagates ==
    lastOp.upstream => lastOp.err = UpstreamError

(***************************************************************************)
(* C16: a call that fails returns no partial result: a readdir that ends  *)
(* in an error has handed no name to the caller, not even '.' and '..'.   *)
(***************************************************************************)
C16_NoPartialListing ==
    lastOp.op = "readdir" /\ lastOp.err # OK => lastOp.names = <<>>

(***************************************************************************)
(* C17: after open returned handle h, the first release(h) clears slot h  *)
(* and returns 0; a second release(h) with no open in between fails with  *)
(* an AssertionError and leaves the handle table unchanged, as release on *)
(* any empty slot does.                                                   *)
(***************************************************************************)
\* this step is a call of release
ReleaseStep == lastOp'.op = "release"
\* this step is a call of open that returned a handle
OpenStep == lastOp'.op = "open" /\ lastOp'.err = OK

\* C17: open fills the slot it returns; release of a filled slot clears it
\* and returns 0; release of an empty slot, a released one included, is an
\* AssertionError that changes nothing
C17_ReleaseOnce ==
    [][ /\ OpenStep =>
            /\ lastOp'.fh \in DOMAIN file_desciptors
            /\ file_desciptors[lastOp'.fh] = None
            /\ file_desciptors'[lastOp'.fh] # None
        /\ ReleaseStep /\ lastOp'.fh \in DOMAIN file_desciptors =>
            IF file_desciptors[lastOp'.fh] # None
            THEN /\ lastOp'.err = OK
                 /\ lastOp'.ret = 0
                 /\ file_desciptors'
                      = [file_desciptors EXCEPT ![lastOp'.fh] = None]
            ELSE /\ lastOp'.err = "AssertionError"
                 /\ file_desciptors' = file_desciptors
        /\ ReleaseStep /\ lastOp'.repeat =>
            /\ lastOp'.err = "AssertionError"
            /\ file_desciptors' = file_desciptors
      ]_vars

\* a handle open gave out was released twice in a row
C17_Witness ==
    /\ lastOp.op = "release"
    /\ lastOp.repeat
    /\ lastOp.fh = 3
    /\ lastOp.err = "AssertionError"

(***************************************************************************)
(* C18: over any sequence of getattr calls the aggregate disk-usage query *)
(* is made at most once per cache window: a lookup inside the window of   *)
(* an earlier query is answered from the cached mapping, and the first    *)
(* lookup after the window expired makes a new query.                     *)
(***************************************************************************)
\* this step is a getattr that answered for a resource: a regular file or
\* a symbolic link
ResourceStatStep ==
    /\ lastOp'.op = "getattr"
    /\ lastOp'.err = OK
    /\ ~IsDirectory(lastOp'.attr)

\* the resource, and the mapping api.df() would give now
SteppedResource ==
    LET parts == Split(lastOp'.path, SLASH, 2) IN
    CollectionGet(Collection(engine, parts[2]),
                  IF parts[3][1] = DOT THEN From(parts[3], 1) ELSE parts[3]).model
DeclaresNoSize(m) ==
    PyOr(DictGet(m.attrs, "SizeRootFs"), DictGet(m.attrs, "Size")) = 0
FreshSizes ==
    [id \in { engine.containers[i].id : i \in DOMAIN engine.containers } |->
       DfSizeRootFs(id)]

\* C18: inside a window no getattr queries the engine and a lookup is
\* answered from the cached mapping; outside one, a getattr that needs a
\* lookup makes the query and opens a window with its answer, and no other
\* getattr queries
C18_OneQueryPerWindow ==
    [][ /\ lastOp'.op = "getattr" /\ sizes_cache.valid =>
            sizes_cache' = sizes_cache
        /\ ResourceStatStep /\ IsRegular(lastOp'.attr) /\ sizes_cache.valid =>
            lastOp'.attr.st_size
              = PreferredSize(SteppedResource, sizes_cache.sizes)
        /\ ResourceStatStep /\ ~sizes_cache.valid =>
            IF DeclaresNoSize(SteppedResource)
            THEN sizes_cache' = [valid |-> TRUE, sizes |-> FreshSizes]
            ELSE sizes_cache' = sizes_cache
        /\ lastOp'.op = "getattr" /\ ~ResourceStatStep =>
            sizes_cache' = sizes_cache
      ]_vars

\* a lookup was answered from a mapping older than the engine's inventory:
\* the container was created inside the window of a query that did not
\* list it
C18_Witness ==
    /\ StatOk /\ IsRegular(lastOp.attr)
    /\ lastOp.path = Path(CONTAINERS, DotId(CTR1))
    /\ sizes_cache.valid
    /\ CTR1 \notin DOMAIN sizes_cache.sizes
    /\ lastOp.attr.st_size = 1000

(***************************************************************************)
(* C19: readdir of the root yields '.', '..' and then exactly volumes,    *)
(* images, containers, each once and nothing else, whatever the engine's  *)
(* inventory and without a query to the engine.                           *)
(***************************************************************************)
\* this step is a listing of the root
RootListingStep ==
    /\ lastOp'.op = "readdir"
    /\ lastOp'.path = <<SLASH>>

\* C19: the root lists as ., .., volumes, images, containers; no engine
\* query is made, so none can fail and no table or cache changes
C19_RootListing ==
    [][ RootListingStep =>
          /\ lastOp'.err = OK
          /\ lastOp'.names = << <<DOT>>, <<DOT, DOT>>,
                                VOLUMES, IMAGES, CONTAINERS >>
          /\ ~lastOp'.upstream
          /\ UNCHANGED <<volume_symlinks, image_symlinks, container_symlinks,
                         sizes_cache>>
      ]_vars

\* the root was listed while the engine failed every query, after a
\* listing had filled a table
C19_Witness ==
    /\ lastOp.op = "readdir"
    /\ lastOp.path = <<SLASH>>
    /\ lastOp.fail_at = 1
    /\ lastOp.err = OK
    /\ DOMAIN image_symlinks # {}

(***************************************************************************)
(* C20: a lookup key that starts with '.' is resolved as an identifier    *)
(* only: getattr on /C/.<x> answers with the resource whose identifier is *)
(* <x> and fails with ENOENT when there is none; it is never answered     *)
(* from the tag-directory fallback.                                       *)
(***************************************************************************)
\* the resources of a collection whose identifier is x, 'sha256:' apart
WithIdentifier(coll, x) ==
    { i \in DOMAIN coll : StripSha(coll[i].id) = x }

\* /<category>/.<x> was stat'ed
StatOfDotName ==
    /\ lastOp.op = "getattr"
    /\ Len(Split(lastOp.path, SLASH, 2)) = 3
    /\ StatName # <<>>
    /\ StatName[1] = DOT

\* C20: a dot-prefixed name is answered with the regular file of the
\* resource that has the identifier, or with ENOENT
C20_DotNameIsIdentifier ==
    StatOfDotName =>
        LET ids == WithIdentifier(Collection(engine, StatCategory),
                                  From(StatName, 1)) IN
        IF ids = {} THEN lastOp.err = ENOENT
        ELSE /\ lastOp.err = OK
             /\ ~IsDirectory(lastOp.attr)

(***************************************************************************)
(* C21: open on a path that resolves returns the lowest empty slot of     *)
(* index 3 or more and fills it, so a released slot is taken again before *)
(* any higher free slot; open on a path that does not resolve fills no    *)
(* slot.                                                                  *)
(***************************************************************************)
\* the empty slots open may give out
FreeSlots(fds) == { i \in DOMAIN fds : i >= 3 /\ fds[i] = None }
\* this step is a call of open that failed
FailedOpenStep == lastOp'.op = "open" /\ lastOp'.err # OK

\* C21: a successful open fills the lowest free slot from 3 up with the
\* resource the path names and touches no other slot; a failed open
\* leaves the table as it was
C21_LowestFreeSlot ==
    [][ /\ OpenStep =>
            /\ lastOp'.fh \in FreeSlots(file_desciptors)
            /\ \A i \in FreeSlots(file_desciptors) : lastOp'.fh <= i
            /\ file_desciptors'
                 = [file_desciptors EXCEPT
                      ![lastOp'.fh] = Some(find_from_path(engine, lastOp'.path).model)]
        /\ FailedOpenStep => file_desciptors' = file_desciptors
      ]_vars

\* slot 3 was released and the next open took it again, slot 4 in use and
\* slot 5 free
C21_Witness ==
    /\ lastOp.op = "open"
    /\ lastOp.err = OK
    /\ lastOp.fh = 3
    /\ file_desciptors[4] # None
    /\ file_desciptors[5] = None

(***************************************************************************)
(* C22: a call that fails (NotFound, an upstream failure, an internal     *)
(* assertion) leaves the three symbolic-link tables and the handle table  *)
(* as they were before the call; a full listing whose engine query fails  *)
(* does not empty or replace the category's table.                        *)
(***************************************************************************)
\* this step is a dispatcher call that ended in an error
FailedCallStep ==
    /\ lastOp'.op \in {"readdir", "getattr", "readlink", "open", "release"}
    /\ lastOp'.err # OK

C22_FailureKeepsState ==
    [][ FailedCallStep =>
          UNCHANGED <<volume_symlinks, image_symlinks, container_symlinks,
                      file_desciptors>>
      ]_vars
(***************************************************************************)
(* C23: a category's link table changes only in a full listing of that    *)
(* category, or in a listing of a tag-prefix directory that finds the     *)
(* image table empty; every other call leaves it as it was, so readlink   *)
(* answers from the table of the last listing, whatever the engine holds  *)
(* by then, and fails with ENOENT for a name the table does not hold.     *)
(***************************************************************************)
\* the step runs the full listing of category c: a readdir of /<c>, of a
\* path below /volumes or /containers (their listings take no prefix), or
\* of a tag-prefix directory while the image table is empty
RebuildingStep(c) ==
    /\ lastOp'.op = "readdir"
    /\ \/ lastOp'.path = Dir(c)
       \/ /\ c # IMAGES
          /\ StartsWith(lastOp'.path, Path(c, <<>>))
       \/ /\ c = IMAGES
          /\ IsPrefixPath(lastOp'.path)
          /\ DOMAIN image_symlinks = {}

\* what a link read of /<c>/<key> answers from the table in hand
AnswerFromTable(c, key) ==
    IF key \in DOMAIN Table(c)
    THEN [err |-> OK,
          target |-> Repeat(<<DOT, DOT, SLASH>>, Count(key, SLASH)) \o Table(c)[key]]
    ELSE [err |-> ENOENT, target |-> <<>>]

HandleRange == 3..(NumDescriptors - 1)

\* every slot from 3 up is in use
TableFull(fds) == OpenSlots(fds) = HandleRange

HandlesInRange ==
    /\ \A i \in 0..2 : file_desciptors[i] = None
    /\ OpenSlots(file_desciptors) \subseteq HandleRange
    /\ Cardinality(OpenSlots(file_desciptors)) <= NumDescriptors - 3

C24_HandleTable ==
    /\ []HandlesInRange
    /\ [][ /\ OpenStep =>
               /\ lastOp'.fh \in HandleRange
               /\ lastOp'.fh \notin OpenSlots(file_desciptors)
               /\ OpenSlots(file_desciptors')
                    = OpenSlots(file_desciptors) \cup {lastOp'.fh}
           /\ lastOp'.op = "open" /\ TableFull(file_desciptors) =>
               /\ lastOp'.err # OK
               /\ file_desciptors' = file_desciptors
         ]_vars

\* open of a path that names a volume failed on a table with 97 handles in
\* use
C24_Witness ==
    /\ lastOp.op = "open"
    /\ lastOp.path = Path(VOLUMES, NameWeb)
    /\ lastOp.err = "ValueError"
    /\ Cardinality(OpenSlots(file_desciptors)) = NumDescriptors - 3
    /\ TableFull(file_desciptors)

(***************************************************************************)
(* C25: every name a listing of a category or of a tag-prefix directory   *)
(* hands out can be stat'ed right after it, the engine holding what it    *)
(* held: the stat succeeds and reports a regular file for a dot-prefixed  *)
(* name, a symbolic link for a tag or name the category's table records   *)
(* and a directory for a tag-segment directory.                           *)
(***************************************************************************)
\* a stat of entry n of the directory just listed, made in this state
StatOfEntry(path, n) ==
    getattr(engine, volume_symlinks, image_symlinks, container_symlinks,
            sizes_cache, EntryPath(path, n))

\* n is a tag-segment directory of the listed directory: a key of the table
\* goes on below it
IsSegmentDirectory(path, n) ==
    /\ CategoryOf(path) = IMAGES
    /\ \E k \in DOMAIN image_symlinks :
         StartsWith(k, KeyOf(path, n) \o <<SLASH>>)

\* the type the stat of entry n is to report
EntryTypeOk(path, n, attr) ==
    /\ n[1] = DOT => IsRegular(attr)
    /\ n[1] # DOT /\ KeyOf(path, n) \in DOMAIN Table(CategoryOf(path))
         => IsLink(attr)
    /\ IsSegmentDirectory(path, n) => IsDirectory(attr)

C25_ListedNamesStat ==
    \A path \in ReaddirPaths :
        ListedOk(path) /\ IsListingPath(path) =>
            \A n \in Range(Entries(lastOp.names)) :
                LET s == StatOfEntry(path, n) IN
                /\ s.err = OK
                /\ EntryTypeOk(path, n, s.attr)

(***************************************************************************)
(* C26: a listing of a path /<category>/<p>, <p> not empty, is produced   *)
(* only where a stat of the same path reports a directory; so a listing   *)
(* of /images/<p> fails when no tag starts with <p>/.                     *)
(***************************************************************************)
\* the path is /<category>/<p> with <p> not empty and no '/' at its end
IsBelowCategory(path) ==
    LET parts == Split(path, SLASH, 2) IN
    /\ Len(parts) = 3
    /\ parts[2] \in Categories
    /\ parts[3] # <<>>
    /\ path[Len(path)] # SLASH

\* a stat of the directory just listed, made in this state
StatOfListed(path) ==
    getattr(engine, volume_symlinks, image_symlinks, container_symlinks,
            sizes_cache, path)

C26_ListsOnlyDirectories ==
    \A path \in ReaddirPaths :
        ListedOk(path) /\ IsBelowCategory(path) =>
            LET s == StatOfListed(path) IN
            /\ s.err = OK
            /\ IsDirectory(s.attr)

====
